---------------------------- MODULE Spec2Model ----------------------------
(***************************************************************************)
(* Gess (GessGame.py): a 20x20 board, 3x3 footprints, make_move,           *)
(* resign_game and alter_board_display of class GessGame, with the Python  *)
(* list-indexing semantics the methods rely on (a negative index wraps to  *)
(* the other end of the list, an index >= 20 raises IndexError, a missing  *)
(* dictionary key raises KeyError).                                        *)
(***************************************************************************)
EXTENDS Integers, Sequences, FiniteSets, TLC

\* Number of make_move calls that write the board in one explored game.
MaxMoves == 2

\* Side length of the board literal built by GessGame.__init__.
BoardSize == 20

\* Distance limits of spaces_allowed.
CenterAllowed == 17
DefaultAllowed == 3

Rows == 0 .. (BoardSize - 1)
Cols == 0 .. (BoardSize - 1)

\* The board literal of GessGame.__init__, top row (human row 20) first.
InitialRows ==
  << << "E", "E", "E", "E", "E", "E", "E", "E", "E", "E", "E", "E", "E", "E", "E", "E", "E", "E", "E", "E" >>,
     << "E", "E", "W", "E", "W", "E", "W", "W", "W", "W", "W", "W", "W", "W", "E", "W", "E", "W", "E", "E" >>,
     << "E", "W", "W", "W", "E", "W", "E", "W", "W", "W", "W", "E", "W", "E", "W", "E", "W", "W", "W", "E" >>,
     << "E", "E", "W", "E", "W", "E", "W", "W", "W", "W", "W", "W", "W", "W", "E", "W", "E", "W", "E", "E" >>,
     << "E", "E", "E", "E", "E", "E", "E", "E", "E", "E", "E", "E", "E", "E", "E", "E", "E", "E", "E", "E" >>,
     << "E", "E", "E", "E", "E", "E", "E", "E", "E", "E", "E", "E", "E", "E", "E", "E", "E", "E", "E", "E" >>,
     << "E", "E", "W", "E", "E", "W", "E", "E", "W", "E", "E", "W", "E", "E", "W", "E", "E", "W", "E", "E" >>,
     << "E", "E", "E", "E", "E", "E", "E", "E", "E", "E", "E", "E", "E", "E", "E", "E", "E", "E", "E", "E" >>,
     << "E", "E", "E", "E", "E", "E", "E", "E", "E", "E", "E", "E", "E", "E", "E", "E", "E", "E", "E", "E" >>,
     << "E", "E", "E", "E", "E", "E", "E", "E", "E", "E", "E", "E", "E", "E", "E", "E", "E", "E", "E", "E" >>,
     << "E", "E", "E", "E", "E", "E", "E", "E", "E", "E", "E", "E", "E", "E", "E", "E", "E", "E", "E", "E" >>,
     << "E", "E", "E", "E", "E", "E", "E", "E", "E", "E", "E", "E", "E", "E", "E", "E", "E", "E", "E", "E" >>,
     << "E", "E", "E", "E", "E", "E", "E", "E", "E", "E", "E", "E", "E", "E", "E", "E", "E", "E", "E", "E" >>,
     << "E", "E", "B", "E", "E", "B", "E", "E", "B", "E", "E", "B", "E", "E", "B", "E", "E", "B", "E", "E" >>,
     << "E", "E", "E", "E", "E", "E", "E", "E", "E", "E", "E", "E", "E", "E", "E", "E", "E", "E", "E", "E" >>,
     << "E", "E", "E", "E", "E", "E", "E", "E", "E", "E", "E", "E", "E", "E", "E", "E", "E", "E", "E", "E" >>,
     << "E", "E", "B", "E", "B", "E", "B", "B", "B", "B", "B", "B", "B", "B", "E", "B", "E", "B", "E", "E" >>,
     << "E", "B", "B", "B", "E", "B", "E", "B", "B", "B", "B", "E", "B", "E", "B", "E", "B", "B", "B", "E" >>,
     << "E", "E", "B", "E", "B", "E", "B", "B", "B", "B", "B", "B", "B", "B", "E", "B", "E", "B", "E", "E" >>,
     << "E", "E", "E", "E", "E", "E", "E", "E", "E", "E", "E", "E", "E", "E", "E", "E", "E", "E", "E", "E" >> >>

\* The board literal with one more Black stone, on a20.
InitialBoard_extra_stone ==
  [r \in Rows |-> [c \in Cols |-> IF r = 0 /\ c = 0 THEN "B" ELSE InitialRows[r + 1][c + 1]]]

InitialBoard == [r \in Rows |-> [c \in Cols |-> InitialRows[r + 1][c + 1]]]

\* self._current_player[0] / self._waiting_player[0]: the first character of
\* the player's name, which is the stone glyph of that player.
FirstChar == [p \in {"BLACK", "WHITE"} |-> IF p = "BLACK" THEN "B" ELSE "W"]

\* f"{self._current_player}_WON"
WonBy == [p \in {"BLACK", "WHITE"} |-> IF p = "BLACK" THEN "BLACK_WON" ELSE "WHITE_WON"]

(***************************************************************************)
(* Python list indexing: board[x][y].                                      *)
(***************************************************************************)
\* An index a Python list of BoardSize elements accepts.
IndexOk(i) == (i >= 0 - BoardSize) /\ (i <= BoardSize - 1)

\* The element a (possibly negative) index selects.
PyIndex(i) == IF i < 0 THEN i + BoardSize ELSE i

\* self._board[x][y] raises IndexError.
BoardRaises(coord) == ~IndexOk(coord[1]) \/ ~IndexOk(coord[2])

\* self._board[x][y], when it does not raise.
BoardGet(b, coord) == b[PyIndex(coord[1])][PyIndex(coord[2])]

\* self._board[x][y] = v, when it does not raise.
BoardSet(b, coord, v) == [b EXCEPT ![PyIndex(coord[1])][PyIndex(coord[2])] = v]

\* The grid cell <<row, col>> a coordinate selects.
CellOf(coord) == << PyIndex(coord[1]), PyIndex(coord[2]) >>

(***************************************************************************)
(* Coordinate conversion.  A human coordinate such as 'c3' is the pair     *)
(* <<"c", 3>>: its first character and the integer value of the rest.      *)
(***************************************************************************)
\* column_dict of Footprint.to_grid_coordinate: letter -> column.
column_dict ==
  (   "a" :> 0  @@ "b" :> 1  @@ "c" :> 2  @@ "d" :> 3  @@ "e" :> 4
   @@ "f" :> 5  @@ "g" :> 6  @@ "h" :> 7  @@ "i" :> 8  @@ "j" :> 9
   @@ "k" :> 10 @@ "l" :> 11 @@ "m" :> 12 @@ "n" :> 13 @@ "o" :> 14
   @@ "p" :> 15 @@ "q" :> 16 @@ "r" :> 17 @@ "s" :> 18 @@ "t" :> 19 )

\* column_dict of from_grid_coordinate: column -> letter.
column_dict_rev ==
  (   0 :> "a"  @@ 1 :> "b"  @@ 2 :> "c"  @@ 3 :> "d"  @@ 4 :> "e"
   @@ 5 :> "f"  @@ 6 :> "g"  @@ 7 :> "h"  @@ 8 :> "i"  @@ 9 :> "j"
   @@ 10 :> "k" @@ 11 :> "l" @@ 12 :> "m" @@ 13 :> "n" @@ 14 :> "o"
   @@ 15 :> "p" @@ 16 :> "q" @@ 17 :> "r" @@ 18 :> "s" @@ 19 :> "t" )

\* Footprint.to_grid_coordinate raises KeyError.
to_grid_raises(h) == h[1] \notin DOMAIN column_dict

\* Footprint.to_grid_coordinate: [row, column].
to_grid_coordinate(h) == << 20 - h[2], column_dict[h[1]] >>

\* from_grid_coordinate raises KeyError.
from_grid_raises(g) == g[2] \notin DOMAIN column_dict_rev

\* from_grid_coordinate taking the row from 19 instead of 20.
from_grid_coordinate_row_from_19(g) == << column_dict_rev[g[2]], 19 - g[1] >>

\* from_grid_coordinate: str(column) + str(row).
from_grid_coordinate(g) == << column_dict_rev[g[2]], 20 - g[1] >>

\* list[i] for a Python list held as a tuple: Python counts from 0.
Item(list, i) == list[i + 1]

\* to_full_footprint with north listed before south.
to_full_footprint_north_first(center) ==
  << center,
     << center[1] - 1, center[2] - 1 >>,
     << center[1],     center[2] - 1 >>,
     << center[1] + 1, center[2] - 1 >>,
     << center[1] - 1, center[2]     >>,
     << center[1] + 1, center[2]     >>,
     << center[1] - 1, center[2] + 1 >>,
     << center[1],     center[2] + 1 >>,
     << center[1] + 1, center[2] + 1 >> >>

\* Footprint.to_full_footprint: [center, northwest, west, southwest, south,
\* north, northeast, east, southeast].
to_full_footprint(center) ==
  << center,
     << center[1] - 1, center[2] - 1 >>,
     << center[1],     center[2] - 1 >>,
     << center[1] + 1, center[2] - 1 >>,
     << center[1] + 1, center[2]     >>,
     << center[1] - 1, center[2]     >>,
     << center[1] - 1, center[2] + 1 >>,
     << center[1],     center[2] + 1 >>,
     << center[1] + 1, center[2] + 1 >> >>

Abs(x) == IF x < 0 THEN 0 - x ELSE x

(***************************************************************************)
(* make_move: the nested checks.  Each returns "True", "False" or the name *)
(* of the exception that leaves it.                                        *)
(***************************************************************************)
\* The for loop of is_valid_piece from list index i on.
RECURSIVE piece_loop(_, _, _, _, _, _)
piece_loop(b, cp, wp, piece_coordinates, i, current_player_stones) ==
  IF i > 8
    THEN (IF current_player_stones = 0 THEN "False" ELSE "True")
    ELSE IF BoardRaises(Item(piece_coordinates, i))
      THEN "IndexError"
      ELSE IF BoardGet(b, Item(piece_coordinates, i)) = FirstChar[wp]
        THEN "False"
        ELSE piece_loop(b, cp, wp, piece_coordinates, i + 1,
                        IF BoardGet(b, Item(piece_coordinates, i)) = FirstChar[cp]
                          THEN current_player_stones + 1
                          ELSE current_player_stones)

\* is_valid_piece without the test for the opponent's stones.
is_valid_piece_own_stone_only(b, cp, wp, start_center) ==
  LET piece_coordinates == to_full_footprint(start_center)
  IN  IF \E i \in 0 .. 8 : BoardRaises(Item(piece_coordinates, i))
        THEN "IndexError"
        ELSE IF \E i \in 0 .. 8 : BoardGet(b, Item(piece_coordinates, i)) = FirstChar[cp]
          THEN "True"
          ELSE "False"

is_valid_piece(b, cp, wp, start_center) ==
  piece_loop(b, cp, wp, to_full_footprint(start_center), 0, 0)

\* spaces_allowed with the 17-space allowance whatever the centre holds.
spaces_allowed_always_center(b, cp, start_center, dest_center) ==
  ~(   Abs(start_center[1] - dest_center[1]) > CenterAllowed
    \/ Abs(start_center[2] - dest_center[2]) > CenterAllowed)

spaces_allowed(b, cp, start_center, dest_center) ==
  LET allowed_movement ==
        IF BoardGet(b, start_center) = FirstChar[cp] THEN CenterAllowed ELSE DefaultAllowed
  IN ~(   Abs(start_center[1] - dest_center[1]) > allowed_movement
       \/ Abs(start_center[2] - dest_center[2]) > allowed_movement)

\* The if/elif chain of direction_allowed.
desired_direction(start_center, dest_center) ==
  CASE start_center[1] = dest_center[1] /\ start_center[2] > dest_center[2] -> "west"
    [] start_center[1] = dest_center[1] /\ start_center[2] < dest_center[2] -> "east"
    [] start_center[1] < dest_center[1] /\ start_center[2] = dest_center[2] -> "south"
    [] start_center[1] > dest_center[1] /\ start_center[2] = dest_center[2] -> "north"
    [] start_center[1] > dest_center[1] /\ start_center[2] > dest_center[2] -> "northwest"
    [] start_center[1] < dest_center[1] /\ start_center[2] > dest_center[2] -> "southwest"
    [] start_center[1] > dest_center[1] /\ start_center[2] < dest_center[2] -> "northeast"
    [] start_center[1] < dest_center[1] /\ start_center[2] < dest_center[2] -> "southeast"
    [] OTHER -> "invalid"

\* The direction a stone on footprint index 1..8 permits.
index_direction ==
  [i \in 1 .. 8 |->
     CASE i = 1 -> "northwest" [] i = 2 -> "west"      [] i = 3 -> "southwest"
       [] i = 4 -> "south"     [] i = 5 -> "north"     [] i = 6 -> "northeast"
       [] i = 7 -> "east"      [] i = 8 -> "southeast"]

\* allowed_directions with a stone on the centre (index 0) permitting north.
allowed_directions_center_north(b, cp, start_center) ==
  { IF i = 0 THEN "north" ELSE index_direction[i] :
      i \in { j \in 0 .. 8 : BoardGet(b, Item(to_full_footprint(start_center), j)) = FirstChar[cp] } }

allowed_directions(b, cp, start_center) ==
  { index_direction[i] :
      i \in { j \in 1 .. 8 : BoardGet(b, Item(to_full_footprint(start_center), j)) = FirstChar[cp] } }

\* direction_allowed: the desired direction, or "False".
direction_allowed(b, cp, start_center, dest_center) ==
  IF desired_direction(start_center, dest_center) \notin allowed_directions(b, cp, start_center)
    THEN "False"
    ELSE desired_direction(start_center, dest_center)

\* indices_of_interest with the west indices handed over for north.
indices_of_interest_north_as_west ==
  [d \in {index_direction[i] : i \in 1 .. 8} |->
     CASE d = "southeast" -> << 3, 4, 6, 7, 8 >>
       [] d = "southwest" -> << 1, 2, 3, 4, 8 >>
       [] d = "northwest" -> << 1, 2, 3, 5, 6 >>
       [] d = "north"     -> << 1, 2, 3 >>
       [] d = "northeast" -> << 1, 5, 6, 7, 8 >>
       [] d = "west"      -> << 1, 2, 3 >>
       [] d = "south"     -> << 3, 4, 8 >>
       [] d = "east"      -> << 6, 7, 8 >>]

\* The footprint indices obstruction_check hands to directional_check.
indices_of_interest ==
  [d \in {index_direction[i] : i \in 1 .. 8} |->
     CASE d = "southeast" -> << 3, 4, 6, 7, 8 >>
       [] d = "southwest" -> << 1, 2, 3, 4, 8 >>
       [] d = "northwest" -> << 1, 2, 3, 5, 6 >>
       [] d = "north"     -> << 1, 5, 6 >>
       [] d = "northeast" -> << 1, 5, 6, 7, 8 >>
       [] d = "west"      -> << 1, 2, 3 >>
       [] d = "south"     -> << 3, 4, 8 >>
       [] d = "east"      -> << 6, 7, 8 >>]

\* The (alt_row, alt_column) obstruction_check hands to directional_check.
alter ==
  [d \in {index_direction[i] : i \in 1 .. 8} |->
     CASE d = "southeast" -> << 1, 1 >>
       [] d = "southwest" -> << 1, -1 >>
       [] d = "northwest" -> << -1, -1 >>
       [] d = "north"     -> << -1, 0 >>
       [] d = "northeast" -> << -1, 1 >>
       [] d = "west"      -> << 0, -1 >>
       [] d = "south"     -> << 1, 0 >>
       [] d = "east"      -> << 0, 1 >>]

create_new_center(alter_row, alter_column, center) ==
  << center[1] + alter_row, center[2] + alter_column >>

\* The while loop of directional_check.  key_locations is built once, before
\* the loop, from the footprint one step from the start; the loop replaces
\* temp_footprint_input but never key_locations.
RECURSIVE directional_loop(_, _, _, _, _, _, _)
directional_loop(b, ph, key_locations, center, dest_center, alt_row, alt_column) ==
  IF center = dest_center
    THEN "True"
    ELSE IF \E k \in 1 .. Len(key_locations) :
               \/ BoardRaises(key_locations[k])           \* IndexError, caught
               \/ BoardGet(b, key_locations[k]) # ph      \* "Obstructed path!"
      THEN "False"
      ELSE LET new_center_temp == create_new_center(alt_row, alt_column, center)
           IN  IF from_grid_raises(new_center_temp)
                 THEN "KeyError"
                 ELSE directional_loop(b, ph, key_locations,
                        to_grid_coordinate(from_grid_coordinate(new_center_temp)),
                        dest_center, alt_row, alt_column)

\* The centres of the Footprints the while loop of directional_check has in
\* temp_footprint_input, in order, the one it is entered with first.
RECURSIVE walk_centers(_, _, _, _, _, _, _)
walk_centers(b, ph, key_locations, center, dest_center, alt_row, alt_column) ==
  IF center = dest_center
    THEN << center >>
    ELSE IF \E k \in 1 .. Len(key_locations) :
               \/ BoardRaises(key_locations[k])
               \/ BoardGet(b, key_locations[k]) # ph
      THEN << center >>
      ELSE LET new_center_temp == create_new_center(alt_row, alt_column, center)
           IN  IF from_grid_raises(new_center_temp)
                 THEN << center >>
                 ELSE << center >> \o walk_centers(b, ph, key_locations,
                                        to_grid_coordinate(from_grid_coordinate(new_center_temp)),
                                        dest_center, alt_row, alt_column)

\* directional_check inspecting the key locations before it compares the
\* first footprint's centre with the destination.
directional_check_keys_first(b, ph, temp_center, indices, dest_center, alt_row, alt_column) ==
  LET all_location_list == to_full_footprint(temp_center)
      key_locations == [k \in 1 .. Len(indices) |-> Item(all_location_list, indices[k])]
  IN  IF \E k \in 1 .. Len(key_locations) :
            \/ BoardRaises(key_locations[k])
            \/ BoardGet(b, key_locations[k]) # ph
        THEN "False"
        ELSE directional_loop(b, ph, key_locations, temp_center, dest_center, alt_row, alt_column)

directional_check(b, ph, temp_center, indices, dest_center, alt_row, alt_column) ==
  LET all_location_list == to_full_footprint(temp_center)
      key_locations == [k \in 1 .. Len(indices) |-> Item(all_location_list, indices[k])]
  IN  directional_loop(b, ph, key_locations, temp_center, dest_center, alt_row, alt_column)

obstruction_check(b, ph, start_center, dest_center, direction) ==
  LET first == create_new_center(alter[direction][1], alter[direction][2], start_center)
  IN  IF from_grid_raises(first)
        THEN "KeyError"
        ELSE directional_check(b, ph, to_grid_coordinate(from_grid_coordinate(first)),
                               indices_of_interest[direction], dest_center,
                               alter[direction][1], alter[direction][2])

is_valid_move(b, cp, ph, start_center, dest_center) ==
  IF ~spaces_allowed(b, cp, start_center, dest_center)
    THEN "False"
    ELSE IF direction_allowed(b, cp, start_center, dest_center) = "False"
      THEN "False"
      ELSE obstruction_check(b, ph, start_center, dest_center,
                             direction_allowed(b, cp, start_center, dest_center))

(***************************************************************************)
(* execute_move: snapshot the start cells, clear them, write the           *)
(* destination cells one at a time.                                        *)
(***************************************************************************)
start_contents(b, start_center) ==
  [n \in 1 .. 9 |-> BoardGet(b, to_full_footprint(start_center)[n])]

\* The clearing loop of execute_move left out.
clear_loop_left_out(b, ph, coords, i) == b

RECURSIVE clear_loop(_, _, _, _)
clear_loop(b, ph, coords, i) ==
  IF i > 8 THEN b ELSE clear_loop(BoardSet(b, Item(coords, i), ph), ph, coords, i + 1)

\* The last for loop of execute_move from list index n on: the board it
\* leaves and whether an IndexError ended it.
RECURSIVE write_loop(_, _, _, _)
write_loop(b, coords, contents, n) ==
  IF n > 8
    THEN [raised |-> FALSE, board |-> b]
    ELSE IF BoardRaises(Item(coords, n))
      THEN [raised |-> TRUE, board |-> b]
      ELSE write_loop(BoardSet(b, Item(coords, n), Item(contents, n)), coords, contents, n + 1)

\* execute_move with the destination written before the start is cleared.
execute_move_clear_last(b, ph, start_center, dest_center) ==
  LET w == write_loop(b, to_full_footprint(dest_center), start_contents(b, start_center), 0)
  IN  [raised |-> w.raised,
       board  |-> clear_loop(w.board, ph, to_full_footprint(start_center), 0)]

execute_move(b, ph, start_center, dest_center) ==
  write_loop(clear_loop(b, ph, to_full_footprint(start_center), 0),
             to_full_footprint(dest_center),
             start_contents(b, start_center), 0)

(***************************************************************************)
(* check_for_win and update_game.                                          *)
(***************************************************************************)
\* The try block of check_for_win for the empty cell <<row, col>>: the
\* footprint is rebuilt from the readable coordinate; an IndexError on any
\* of its cells skips the candidate, otherwise 8 opposing stones make a ring.
is_ring(b, wp, row_number, column_number) ==
  LET fp == to_full_footprint(to_grid_coordinate(from_grid_coordinate(<< row_number, column_number >>)))
  IN  /\ \A i \in 0 .. 8 : ~BoardRaises(Item(fp, i))
      /\ Cardinality({i \in 0 .. 8 : BoardGet(b, Item(fp, i)) = FirstChar[wp]}) = 8

opponent_has_ring(b, wp, ph) ==
  \E row_number \in Rows : \E column_number \in Cols :
     /\ b[row_number][column_number] = ph
     /\ is_ring(b, wp, row_number, column_number)

\* check_for_win looking for a ring of the player who moved.
check_for_win_mover_rings(b, cp, wp, gs, ph) ==
  IF opponent_has_ring(b, cp, ph) THEN gs ELSE WonBy[cp]

\* check_for_win: the game state it leaves.
check_for_win(b, cp, wp, gs, ph) ==
  IF opponent_has_ring(b, wp, ph) THEN gs ELSE WonBy[cp]

\* update_game exchanging the players without the temporary variable.
update_game_without_temp(cp, wp, gs) ==
  IF gs # "UNFINISHED"
    THEN [current_player |-> cp, waiting_player |-> wp]
    ELSE [current_player |-> wp, waiting_player |-> wp]

\* update_game: the players it leaves.
update_game(cp, wp, gs) ==
  IF gs # "UNFINISHED"
    THEN [current_player |-> cp, waiting_player |-> wp]
    ELSE [current_player |-> wp, waiting_player |-> cp]

(***************************************************************************)
(* make_move as a whole: the value it returns (or the exception that       *)
(* leaves it) and the fields of the game it leaves behind.                 *)
(***************************************************************************)
Outcome(res, b, cp, wp, gs) ==
  [result |-> res, board |-> b, current_player |-> cp, waiting_player |-> wp, game_state |-> gs]

\* accept_move exchanging the players whatever check_for_win left.
accept_move_always_swap(b, cp, wp, gs, ph, start_center, dest_center) ==
  LET ex == execute_move(b, ph, start_center, dest_center)
  IN  IF ex.raised
        THEN Outcome("IndexError", ex.board, cp, wp, gs)
        ELSE Outcome("True", ex.board, wp, cp, check_for_win(ex.board, cp, wp, gs, ph))

\* The tail of make_move once is_valid_piece and is_valid_move returned True:
\* execute_move, check_for_win, update_game, return True.
accept_move(b, cp, wp, gs, ph, start_center, dest_center) ==
  LET ex == execute_move(b, ph, start_center, dest_center)
  IN  IF ex.raised
        THEN Outcome("IndexError", ex.board, cp, wp, gs)
        ELSE LET gs2 == check_for_win(ex.board, cp, wp, gs, ph)
                 ug  == update_game(cp, wp, gs2)
             IN  Outcome("True", ex.board, ug.current_player, ug.waiting_player, gs2)

\* make_move with execute_move run before is_valid_move is consulted.
make_move_execute_first(b, cp, wp, gs, ph, start, destination) ==
  IF to_grid_raises(start) \/ to_grid_raises(destination)
    THEN Outcome("False", b, cp, wp, gs)
    ELSE LET start_center == to_grid_coordinate(start)
             dest_center  == to_grid_coordinate(destination)
             piece        == is_valid_piece(b, cp, wp, start_center)
         IN  IF piece # "True"
               THEN Outcome(piece, b, cp, wp, gs)
               ELSE LET move == is_valid_move(b, cp, ph, start_center, dest_center)
                    IN  IF move # "True"
                          THEN Outcome(move, execute_move(b, ph, start_center, dest_center).board,
                                       cp, wp, gs)
                          ELSE accept_move(b, cp, wp, gs, ph, start_center, dest_center)

make_move(b, cp, wp, gs, ph, start, destination) ==
  IF to_grid_raises(start) \/ to_grid_raises(destination)
    THEN Outcome("False", b, cp, wp, gs)                       \* except KeyError
    ELSE LET start_center == to_grid_coordinate(start)
             dest_center  == to_grid_coordinate(destination)
             piece        == is_valid_piece(b, cp, wp, start_center)
         IN  IF piece # "True"
               THEN Outcome(piece, b, cp, wp, gs)
               ELSE LET move == is_valid_move(b, cp, ph, start_center, dest_center)
                    IN  IF move # "True"
                          THEN Outcome(move, b, cp, wp, gs)
                          ELSE accept_move(b, cp, wp, gs, ph, start_center, dest_center)

\* game_over: what a call made with game state gs does, print the farewell
\* message of the winner or raise ValueError.
game_over(gs) ==
  CASE gs = "WHITE_WON"  -> "Congratulations white player! You won!"
    [] gs = "BLACK_WON"  -> "Congratulations black player! You won!"
    [] gs = "UNFINISHED" -> "ValueError"
    [] OTHER             -> "None"

\* update_game calling game_over whatever the game state is.
update_game_calls_game_over_unguarded(gs) == game_over(gs)

\* update_game: the game_over call it makes, if any, with the game state
\* check_for_win left.
update_game_calls_game_over(gs) ==
  IF gs # "UNFINISHED" THEN game_over(gs) ELSE "not called"

\* resign_game awarding the game to the player who resigns.
resign_game_current_wins(cp) == WonBy[cp]

\* resign_game: the game state it leaves.
resign_game(cp) == IF cp = "BLACK" THEN "WHITE_WON" ELSE "BLACK_WON"

\* resign_game: the game_over call that ends it, made with the game state it
\* has just set.
resign_game_calls_game_over(cp) == game_over(resign_game(cp))

\* alter_board_display: `placeholder == "W" or "B"` is the comparison when it
\* is true and the non-empty string "B" otherwise, so the test always passes.
alter_placeholder(placeholder) ==
  IF (placeholder = "W") \/ ("B" # "") THEN " " ELSE placeholder

\* alter_board_display storing the placeholder and leaving the cells alone.
alter_board_display_keeps_cells(b, placeholder) == b

alter_board_display(b, placeholder) ==
  [r \in Rows |-> [c \in Cols |->
     IF b[r][c] = "E" THEN alter_placeholder(placeholder) ELSE b[r][c]]]

(***************************************************************************)
(* The game object and the calls made on it.                               *)
(***************************************************************************)
VARIABLES board, current_player, waiting_player, game_state, empty_placeholder,
          moves,     \* make_move calls so far that wrote the board
          last,      \* the last call: its arguments, its result, the fields before it
          footprint, \* the Footprint object last constructed on its own
          game_over_call  \* what game_over did in the last call, "not called" if it was not invoked

vars == << board, current_player, waiting_player, game_state, empty_placeholder, moves, last,
           footprint, game_over_call >>

\* The (start, destination) arguments make_move is called with.
MovePairs ==
  { << <<"c", 3>>,  <<"c", 6>>  >>,   \* north 3, free path
    << <<"c", 15>>, <<"c", 12>> >>,   \* south 3 (White)
    << <<"j", 3>>,  <<"j", 20>> >>,   \* north 17 over occupied cells to the top row
    << <<"j", 18>>, <<"j", 3>>  >>,   \* south 15 over occupied cells (White)
    << <<"c", 3>>,  <<"c", 1>>  >>,   \* south 2 to the bottom row
    << <<"a", 3>>,  <<"b", 3>>  >>,   \* east 1 from the left column
    << <<"d", 4>>,  <<"c", 4>>  >>,   \* west 1, overlapping footprints
    << <<"l", 3>>,  <<"l", 4>>  >>,   \* north 1 from the ring centre
    << <<"b", 6>>,  <<"c", 8>>  >>,   \* off the compass rays
    << <<"a", 1>>,  <<"a", 1>>  >>,   \* corner footprint
    << <<"c", 5>>,  <<"f", 9>>  >>,   \* too far
    << <<"c", 3>>,  <<"b", 4>>  >>,   \* direction without a stone
    << <<"d", 4>>,  <<"b", 4>>  >>,   \* west 2, obstructed
    << <<"a", 5>>,  <<"a", 6>>  >>,   \* empty footprint
    << <<"l", 3>>,  <<"l", 8>>  >>,   \* north 5 with no stone on the centre
    << <<"c", 7>>,  <<"c", 8>>  >>,   \* north 1, the centre the only stone
    << <<"f", 3>>,  <<"e", 4>>  >>,   \* northwest 1
    << <<"i", 18>>, <<"j", 19>> >>,   \* southeast 1 in White's camp
    << <<"k", 3>>,  <<"k", 6>>  >>,   \* north 3, taking one side of Black's own ring
    << <<"x", 6>>,  <<"b", 5>>  >>,   \* column letter outside a..t
    << <<"c", 21>>, <<"c", 22>> >> }  \* row numbers outside 1..20

Before(op, start, destination, res) ==
  [op |-> op, start |-> start, destination |-> destination, result |-> res,
   board |-> board, current_player |-> current_player, waiting_player |-> waiting_player,
   game_state |-> game_state, empty_placeholder |-> empty_placeholder]

Init ==
  /\ board = InitialBoard
  /\ current_player = "BLACK"
  /\ waiting_player = "WHITE"
  /\ game_state = "UNFINISHED"
  /\ empty_placeholder = "E"
  /\ moves = 0
  /\ last = Before("init", <<"a", 1>>, <<"a", 1>>, "None")
  /\ footprint = [op |-> "none"]
  /\ game_over_call = "not called"

MakeMove(start, destination) ==
  \E out \in {make_move(board, current_player, waiting_player, game_state,
                       empty_placeholder, start, destination)} :
  LET wrote == out.board # board
  IN  /\ wrote => moves < MaxMoves
      /\ board' = out.board
      /\ current_player' = out.current_player
      /\ waiting_player' = out.waiting_player
      /\ game_state' = out.game_state
      /\ moves' = IF wrote THEN moves + 1 ELSE moves
      /\ last' = Before("make_move", start, destination, out.result)
      /\ game_over_call' = IF out.result = "True"
                             THEN update_game_calls_game_over(out.game_state)
                             ELSE "not called"
      /\ UNCHANGED << empty_placeholder, footprint >>

ResignGame ==
  /\ game_state' = resign_game(current_player)
  /\ last' = Before("resign_game", <<"a", 1>>, <<"a", 1>>, "None")
  /\ game_over_call' = resign_game_calls_game_over(current_player)
  /\ UNCHANGED << board, current_player, waiting_player, empty_placeholder, moves, footprint >>

AlterBoardDisplay(placeholder) ==
  /\ board' = alter_board_display(board, placeholder)
  /\ empty_placeholder' = alter_placeholder(placeholder)
  /\ last' = Before("alter_board_display", <<"a", 1>>, <<"a", 1>>, "None")
  /\ game_over_call' = "not called"
  /\ UNCHANGED << current_player, waiting_player, game_state, moves, footprint >>

Next ==
  \/ \E p \in MovePairs : MakeMove(p[1], p[2])
  \/ ResignGame
  \/ \E placeholder \in {"W", "-"} : AlterBoardDisplay(placeholder)

Spec == Init /\ [][Next]_vars

(***************************************************************************)
(* Footprint objects constructed on their own, over every coordinate of    *)
(* the board: from a human coordinate, as make_move constructs them from   *)
(* its arguments, and from a grid coordinate through from_grid_coordinate, *)
(* as the path walk and check_for_win construct them.                      *)
(***************************************************************************)
HumanCoordinates == { << letter, number >> : letter \in DOMAIN column_dict, number \in 1 .. BoardSize }

GridCoordinates == Rows \X Cols

\* Footprint(center_coordinates), and the readable form of its centre.
FootprintOfHuman(center_coordinates) ==
  /\ footprint' =
        [op |-> "Footprint",
         center_coordinates      |-> center_coordinates,
         center_grid_coordinates |-> to_grid_coordinate(center_coordinates),
         footprint_coordinates   |-> to_full_footprint(to_grid_coordinate(center_coordinates)),
         coordinates_readable    |-> from_grid_coordinate(to_grid_coordinate(center_coordinates))]
  /\ UNCHANGED << board, current_player, waiting_player, game_state, empty_placeholder,
                  moves, last, game_over_call >>

\* Footprint(from_grid_coordinate(index_format)).
FootprintOfGrid(index_format) ==
  /\ footprint' =
        [op |-> "from_grid_coordinate",
         index_format            |-> index_format,
         center_coordinates      |-> from_grid_coordinate(index_format),
         center_grid_coordinates |-> to_grid_coordinate(from_grid_coordinate(index_format)),
         footprint_coordinates   |->
            to_full_footprint(to_grid_coordinate(from_grid_coordinate(index_format)))]
  /\ UNCHANGED << board, current_player, waiting_player, game_state, empty_placeholder,
                  moves, last, game_over_call >>

FootprintNext ==
  \/ \E center_coordinates \in HumanCoordinates : FootprintOfHuman(center_coordinates)
  \/ \E index_format \in GridCoordinates : FootprintOfGrid(index_format)

FootprintSpec == Init /\ [][FootprintNext]_vars

(***************************************************************************)
(* The last call, as the properties below read it.                         *)
(***************************************************************************)
Called   == last.op = "make_move"
Accepted == Called /\ last.result = "True"
Rejected == Called /\ last.result = "False"

StartCenter == to_grid_coordinate(last.start)
DestCenter  == to_grid_coordinate(last.destination)
StartFootprint == to_full_footprint(StartCenter)
DestFootprint  == to_full_footprint(DestCenter)

\* A coordinate that names a cell of the 20x20 grid.
OnGrid(coord) == coord[1] \in Rows /\ coord[2] \in Cols

\* A human coordinate with a column letter a..t and a row number 1..20.
WellFormed(h) ==
  /\ h[1] \in {"a", "b", "c", "d", "e", "f", "g", "h", "i", "j",
              "k", "l", "m", "n", "o", "p", "q", "r", "s", "t"}
  /\ h[2] \in 1 .. BoardSize

\* A make_move call whose two arguments are well-formed.
CalledWellFormed == Called /\ WellFormed(last.start) /\ WellFormed(last.destination)

FieldsUnchanged ==
  /\ board = last.board
  /\ current_player = last.current_player
  /\ waiting_player = last.waiting_player
  /\ game_state = last.game_state

(***************************************************************************)
(* C1: a make_move call that returns False leaves every board cell, the    *)
(* current player, the waiting player and the game status as they were     *)
(* before the call.                                                        *)
(***************************************************************************)
C1_RejectionChangesNothing == Rejected => FieldsUnchanged

\* A call rejected by is_valid_move, after the piece itself was found valid.
C1_Witness ==
  /\ Rejected
  /\ WellFormed(last.start)
  /\ is_valid_piece(last.board, last.current_player, last.waiting_player, StartCenter) = "True"

(***************************************************************************)
(* C2: whenever make_move accepts a move of k >= 2 unit steps, every       *)
(* intermediate centre (steps 1..k-1 from the start centre along the move  *)
(* direction) had all of its leading-edge cells (the cells of the          *)
(* footprint at that centre not covered by the footprint one step earlier) *)
(* empty on the pre-move board.                                            *)
(***************************************************************************)
Sign(x) == IF x > 0 THEN 1 ELSE IF x < 0 THEN -1 ELSE 0

Max(x, y) == IF x >= y THEN x ELSE y

\* Number of unit steps of the last call's move, and its unit step.
StepCount == Max(Abs(DestCenter[1] - StartCenter[1]), Abs(DestCenter[2] - StartCenter[2]))
UnitStep  == << Sign(DestCenter[1] - StartCenter[1]), Sign(DestCenter[2] - StartCenter[2]) >>

\* The centre j unit steps from the start centre.
CenterAt(j) == << StartCenter[1] + j * UnitStep[1], StartCenter[2] + j * UnitStep[2] >>

FootprintCells(center) == { to_full_footprint(center)[n] : n \in 1 .. 9 }

\* The cells the footprint enters with its j-th step.
LeadingEdge(j) == FootprintCells(CenterAt(j)) \ FootprintCells(CenterAt(j - 1))

C2_IntermediateStepsClear ==
  (Accepted /\ StepCount >= 2) =>
     \A j \in 1 .. (StepCount - 1) :
        \A cell \in LeadingEdge(j) :
           OnGrid(cell) => last.board[cell[1]][cell[2]] = last.empty_placeholder

(***************************************************************************)
(* C3: after an accepted make_move, for each index i in 0..8 the cell at   *)
(* the destination footprint's i-th coordinate holds the value the start   *)
(* footprint's i-th coordinate held before the move, and every start cell  *)
(* that is not also a destination cell is empty; overlapping footprints    *)
(* included.  A coordinate selects the cell list indexing selects.         *)
(***************************************************************************)
DestCells == { CellOf(DestFootprint[n]) : n \in 1 .. 9 }

C3_Relocation ==
  Accepted =>
     /\ \A i \in 0 .. 8 :
           BoardGet(board, Item(DestFootprint, i)) = BoardGet(last.board, Item(StartFootprint, i))
     /\ \A i \in 0 .. 8 :
           CellOf(Item(StartFootprint, i)) \notin DestCells
              => BoardGet(board, Item(StartFootprint, i)) = empty_placeholder

\* An accepted move whose two footprints share cells, stones among them.
C3_Witness ==
  /\ Accepted
  /\ \E i \in 0 .. 8 :
        /\ CellOf(Item(StartFootprint, i)) \in DestCells
        /\ BoardGet(last.board, Item(StartFootprint, i)) = FirstChar[last.current_player]

(***************************************************************************)
(* C4: once the game status is BLACK_WON or WHITE_WON it never changes     *)
(* again, under any call.                                                  *)
(***************************************************************************)
C4_TerminalStatusAbsorbing ==
  last.game_state \in {"BLACK_WON", "WHITE_WON"} => game_state = last.game_state

(***************************************************************************)
(* C5: while the game status is not UNFINISHED, every make_move call is    *)
(* rejected and changes no board cell.                                     *)
(***************************************************************************)
C5_NoMoveAfterEnd ==
  (Called /\ last.game_state # "UNFINISHED") => (last.result = "False" /\ board = last.board)

(***************************************************************************)
(* C6: after an accepted make_move the status is <mover>_WON if and only   *)
(* if no empty cell of the post-move board has all 8 neighbours inside the *)
(* grid and owned by the waiting (non-moving) player; otherwise the status *)
(* stays UNFINISHED.                                                       *)
(***************************************************************************)
\* The 8 neighbours of a cell, as coordinates.
Neighbours(r, c) ==
  { << r + dr, c + dc >> : dr \in {-1, 0, 1}, dc \in {-1, 0, 1} } \ { << r, c >> }

\* A ring of player p on board b: an empty cell whose 8 neighbours are all
\* on the grid and hold stones of p.
HasRing(b, p, ph) ==
  \E r \in Rows : \E c \in Cols :
     /\ b[r][c] = ph
     /\ \A n \in Neighbours(r, c) : OnGrid(n) /\ b[n[1]][n[2]] = FirstChar[p]

C6_WinIffNoRing ==
  Accepted =>
     IF HasRing(board, last.waiting_player, empty_placeholder)
       THEN game_state = "UNFINISHED"
       ELSE game_state = WonBy[last.current_player]

(***************************************************************************)
(* C7: a make_move whose centres differ in both row and column by non-zero *)
(* amounts of unequal magnitude is rejected: the call returns False and    *)
(* changes no state.                                                       *)
(***************************************************************************)
OffRays ==
  /\ DestCenter[1] # StartCenter[1]
  /\ DestCenter[2] # StartCenter[2]
  /\ Abs(DestCenter[1] - StartCenter[1]) # Abs(DestCenter[2] - StartCenter[2])

C7_OffRayRejected == (CalledWellFormed /\ OffRays) => (last.result = "False" /\ FieldsUnchanged)

(***************************************************************************)
(* C8: after any make_move call ends, by returning or by an error, the     *)
(* board is either the pre-call board or the fully relocated board: never  *)
(* start cells cleared with the destination not completely written.        *)
(***************************************************************************)
DestinationWritten ==
  \A i \in 0 .. 8 :
     /\ ~BoardRaises(Item(DestFootprint, i))
     /\ BoardGet(board, Item(DestFootprint, i)) = BoardGet(last.board, Item(StartFootprint, i))

C8_AllOrNothing == Called => (board = last.board \/ DestinationWritten)

(***************************************************************************)
(* C9: if any of the 9 cells of the start or of the destination footprint  *)
(* lies outside the grid, make_move rejects the move: no unhandled error,  *)
(* and no cell of the opposite edge is taken as part of a footprint or     *)
(* written.                                                                *)
(***************************************************************************)
FootprintOffGrid ==
  \E i \in 0 .. 8 : ~OnGrid(Item(StartFootprint, i)) \/ ~OnGrid(Item(DestFootprint, i))

C9_EdgeFootprintRejected ==
  (CalledWellFormed /\ FootprintOffGrid) => (last.result = "False" /\ board = last.board)

(***************************************************************************)
(* C10: for well-formed coordinates make_move completes with an accept or  *)
(* a reject result; no exception leaves it.                                *)
(***************************************************************************)
C10_NoUnhandledError == CalledWellFormed => last.result \in {"True", "False"}

(***************************************************************************)
(* C11: a make_move call with an ill-formed coordinate (column letter      *)
(* outside a..t or row number outside 1..20) is rejected: it returns False *)
(* and leaves board, players and status as they were.                      *)
(***************************************************************************)
IllFormedCall == Called /\ ~(WellFormed(last.start) /\ WellFormed(last.destination))

C11_IllFormedRejected == IllFormedCall => (last.result = "False" /\ FieldsUnchanged)

(***************************************************************************)
(* C12: after an accepted make_move that does not end the game (the status *)
(* does not go from UNFINISHED to a win in the call), the current and the  *)
(* waiting player are exchanged relative to their values before the call   *)
(* (the mover is now the waiting player) and the status is UNFINISHED.     *)
(***************************************************************************)
EndsGame == last.game_state = "UNFINISHED" /\ game_state # "UNFINISHED"

C12_TurnAlternates ==
  (Accepted /\ ~EndsGame) =>
     /\ current_player = last.waiting_player
     /\ waiting_player = last.current_player
     /\ game_state = "UNFINISHED"

(***************************************************************************)
(* C13: every accepted make_move is within the distance limit: with        *)
(* allowed = 17 if the start centre holds the mover's stone on the         *)
(* pre-move board and 3 otherwise, the row delta and the column delta of   *)
(* the two centres are both at most allowed in absolute value; a move of a *)
(* valid piece that exceeds the limit returns False and changes nothing.   *)
(***************************************************************************)
Decoded == Called /\ ~to_grid_raises(last.start) /\ ~to_grid_raises(last.destination)

Allowed ==
  IF BoardGet(last.board, StartCenter) = FirstChar[last.current_player] THEN 17 ELSE 3

WithinLimit ==
  /\ Abs(DestCenter[1] - StartCenter[1]) <= Allowed
  /\ Abs(DestCenter[2] - StartCenter[2]) <= Allowed

ValidPiece ==
  is_valid_piece(last.board, last.current_player, last.waiting_player, StartCenter) = "True"

C13_DistanceLimit ==
  /\ Accepted => WithinLimit
  /\ (Decoded /\ ValidPiece /\ ~WithinLimit) => (last.result = "False" /\ FieldsUnchanged)

\* An accepted move of more than 3 rows, the centre holding the mover's stone.
C13_Witness ==
  /\ Accepted
  /\ Allowed = 17
  /\ Abs(DestCenter[1] - StartCenter[1]) > 3

(***************************************************************************)
(* C14: every accepted make_move moves in a direction anchored by the      *)
(* mover's own stone: on the pre-move board the start footprint's cell at  *)
(* the index of the move's compass direction (1=NW, 2=W, 3=SW, 4=S, 5=N,   *)
(* 6=NE, 7=E, 8=SE) holds the mover's stone; a footprint whose only own    *)
(* stone is on the centre (index 0) is never moved.                        *)
(***************************************************************************)
\* The footprint index of the compass direction of the last call's move.
MoveIndex ==
  CASE UnitStep = << -1, -1 >> -> 1
    [] UnitStep = <<  0, -1 >> -> 2
    [] UnitStep = <<  1, -1 >> -> 3
    [] UnitStep = <<  1,  0 >> -> 4
    [] UnitStep = << -1,  0 >> -> 5
    [] UnitStep = << -1,  1 >> -> 6
    [] UnitStep = <<  0,  1 >> -> 7
    [] UnitStep = <<  1,  1 >> -> 8
    [] OTHER -> 0

OwnStoneAt(i) ==
  /\ ~BoardRaises(Item(StartFootprint, i))
  /\ BoardGet(last.board, Item(StartFootprint, i)) = FirstChar[last.current_player]

C14_DirectionAnchored ==
  /\ Accepted => (MoveIndex \in 1 .. 8 /\ OwnStoneAt(MoveIndex))
  /\ (Decoded /\ OwnStoneAt(0) /\ \A i \in 1 .. 8 : ~OwnStoneAt(i)) => last.result # "True"

\* An accepted diagonal move.
C14_Witness ==
  /\ Accepted
  /\ MoveIndex \in {1, 3, 6, 8}

(***************************************************************************)
(* C15: every accepted make_move starts from a footprint that on the       *)
(* pre-move board holds no stone of the waiting player in any of its cells *)
(* and at least one stone of the current player; a call whose start        *)
(* footprint violates either condition returns False and changes nothing.  *)
(* Stated for calls with well-formed coordinates.                          *)
(***************************************************************************)
\* The start footprint's i-th coordinate is a cell of the grid holding v.
StartHolds(i, v) ==
  /\ OnGrid(Item(StartFootprint, i))
  /\ BoardGet(last.board, Item(StartFootprint, i)) = v

FootprintViolates ==
  \/ \E i \in 0 .. 8 : StartHolds(i, FirstChar[last.waiting_player])
  \/ \A i \in 0 .. 8 : ~StartHolds(i, FirstChar[last.current_player])

C15_PieceValid ==
  CalledWellFormed =>
     /\ Accepted => ~FootprintViolates
     /\ FootprintViolates => (last.result = "False" /\ FieldsUnchanged)

(***************************************************************************)
(* C16: an accepted make_move changes no board cell other than the 9 cells *)
(* of the start footprint and the 9 cells of the destination footprint:    *)
(* every other cell of the 20x20 grid keeps its pre-move value.            *)
(***************************************************************************)
C16_OtherCellsKept ==
  (CalledWellFormed /\ Accepted) =>
     \A r \in Rows : \A c \in Cols :
        << r, c >> \notin (FootprintCells(StartCenter) \cup FootprintCells(DestCenter))
           => board[r][c] = last.board[r][c]

(***************************************************************************)
(* C17: resign_game called while the status is UNFINISHED sets the status  *)
(* to the win of the player who is not the current player (BLACK resigning *)
(* gives WHITE_WON, WHITE resigning gives BLACK_WON) and changes no board  *)
(* cell and neither player.                                                *)
(***************************************************************************)
Resigned == last.op = "resign_game"

C17_ResignGivesOpponentWin ==
  (Resigned /\ last.game_state = "UNFINISHED") =>
     /\ last.current_player = "BLACK" => game_state = "WHITE_WON"
     /\ last.current_player = "WHITE" => game_state = "BLACK_WON"
     /\ game_state = WonBy[last.waiting_player]
     /\ board = last.board
     /\ current_player = last.current_player
     /\ waiting_player = last.waiting_player

\* White resigns an unfinished game.
C17_Witness ==
  /\ Resigned
  /\ last.game_state = "UNFINISHED"
  /\ last.current_player = "WHITE"

(***************************************************************************)
(* C18: once the status is BLACK_WON or WHITE_WON, no make_move and no     *)
(* resign_game call changes the current or the waiting player.             *)
(***************************************************************************)
C18_PlayersFrozenAfterEnd ==
  ((Called \/ Resigned) /\ last.game_state \in {"BLACK_WON", "WHITE_WON"}) =>
     /\ current_player = last.current_player
     /\ waiting_player = last.waiting_player

\* A move accepted after the game has ended.
C18_Witness ==
  /\ Accepted
  /\ last.game_state \in {"BLACK_WON", "WHITE_WON"}

(***************************************************************************)
(* C19: the coordinate conversions round-trip: for every grid coordinate   *)
(* (row, col) with 0 <= row, col <= 19, converting its human form back     *)
(* gives (row, col) again; for every human coordinate with letter a..t and *)
(* number 1..20, converting its grid form back gives the same human        *)
(* coordinate; the grid row is 20 minus the human row and the grid column  *)
(* is the position of the letter in a..t counted from 0.                   *)
(***************************************************************************)
Letters ==
  << "a", "b", "c", "d", "e", "f", "g", "h", "i", "j",
     "k", "l", "m", "n", "o", "p", "q", "r", "s", "t" >>

C19_RoundTrip ==
  /\ footprint.op = "from_grid_coordinate" =>
        footprint.center_grid_coordinates = footprint.index_format
  /\ footprint.op = "Footprint" =>
        /\ footprint.coordinates_readable = footprint.center_coordinates
        /\ footprint.center_grid_coordinates[1] = 20 - footprint.center_coordinates[2]
        /\ Letters[footprint.center_grid_coordinates[2] + 1] = footprint.center_coordinates[1]

\* 't1', the last column and the last row of the grid, converted and back.
C19_Witness ==
  /\ footprint.op = "Footprint"
  /\ footprint.center_coordinates = << "t", 1 >>
  /\ footprint.center_grid_coordinates = << 19, 19 >>

(***************************************************************************)
(* C20: for every centre (r, c) the footprint is the ordered sequence      *)
(* [centre, NW, W, SW, S, N, NE, E, SE] = [(r,c), (r-1,c-1), (r,c-1),      *)
(* (r+1,c-1), (r+1,c), (r-1,c), (r-1,c+1), (r,c+1), (r+1,c+1)], whichever *)
(* way the Footprint is constructed at that centre.                        *)
(***************************************************************************)
C20_FootprintOrder ==
  footprint.op # "none" =>
     LET r == footprint.center_grid_coordinates[1]
         c == footprint.center_grid_coordinates[2]
     IN  footprint.footprint_coordinates =
           << << r, c >>, << r - 1, c - 1 >>, << r, c - 1 >>, << r + 1, c - 1 >>,
              << r + 1, c >>, << r - 1, c >>, << r - 1, c + 1 >>, << r, c + 1 >>,
              << r + 1, c + 1 >> >>

\* Footprint('f17'): centre [3, 5], then [2, 4] ... [4, 6].
C20_Witness ==
  /\ footprint.op = "Footprint"
  /\ footprint.center_coordinates = << "f", 17 >>
  /\ footprint.footprint_coordinates =
        << << 3, 5 >>, << 2, 4 >>, << 3, 4 >>, << 4, 4 >>, << 4, 5 >>,
           << 2, 5 >>, << 2, 6 >>, << 3, 6 >>, << 4, 6 >> >>

(***************************************************************************)
(* C21: from the initial position the move c3 -> c6 (Black) is accepted    *)
(* and leaves WHITE the current and BLACK the waiting player; the move     *)
(* c15 -> c12 (White) that follows is accepted too and leaves the status   *)
(* UNFINISHED and BLACK the current player again.                          *)
(***************************************************************************)
\* The stones of a board, every other cell written "E".
Stones(b) == [r \in Rows |-> [c \in Cols |-> IF b[r][c] \in {"B", "W"} THEN b[r][c] ELSE "E"]]

\* The initial position with the footprint of c3 (rows 4..2, columns b..d)
\* three rows further north.
AfterC3C6 ==
  [r \in Rows |-> [c \in Cols |->
     IF c \in 1 .. 3 /\ r \in 13 .. 15 THEN InitialBoard[r + 3][c]
     ELSE IF c \in 1 .. 3 /\ r \in 16 .. 18 THEN "E"
     ELSE InitialBoard[r][c]]]

FirstMoveMade ==
  /\ Called
  /\ Stones(last.board) = InitialBoard
  /\ last.current_player = "BLACK"
  /\ last.waiting_player = "WHITE"
  /\ last.game_state = "UNFINISHED"
  /\ last.start = << "c", 3 >>
  /\ last.destination = << "c", 6 >>

SecondMoveMade ==
  /\ Called
  /\ Stones(last.board) = AfterC3C6
  /\ last.current_player = "WHITE"
  /\ last.waiting_player = "BLACK"
  /\ last.game_state = "UNFINISHED"
  /\ last.start = << "c", 15 >>
  /\ last.destination = << "c", 12 >>

C21_TwoOpeningMoves ==
  /\ FirstMoveMade =>
        /\ last.result = "True"
        /\ Stones(board) = AfterC3C6
        /\ current_player = "WHITE"
        /\ waiting_player = "BLACK"
  /\ SecondMoveMade =>
        /\ last.result = "True"
        /\ game_state = "UNFINISHED"
        /\ current_player = "BLACK"

\* The second of the two moves has been made.
C21_Witness == SecondMoveMade /\ last.result = "True"

(***************************************************************************)
(* C22: a newly constructed game has status UNFINISHED, current player     *)
(* BLACK, waiting player WHITE, and a board of exactly 43 Black and 43     *)
(* White stones in the setup of the board literal (White on rows 19..17    *)
(* and 14, Black mirrored on rows 2..4 and 7, one ring each on column l),  *)
(* every other cell "E".                                                   *)
(***************************************************************************)
StoneCount(b, glyph) == Cardinality({ cell \in Rows \X Cols : b[cell[1]][cell[2]] = glyph })

NewGame == last.op = "init"

C22_NewGameState ==
  NewGame =>
     /\ game_state = "UNFINISHED"
     /\ current_player = "BLACK"
     /\ waiting_player = "WHITE"
     /\ StoneCount(board, "B") = 43
     /\ StoneCount(board, "W") = 43
     /\ StoneCount(board, "E") = 400 - 86
     /\ \A r \in Rows : \A c \in Cols :
           /\ board[r][c] = "W" => r \in {1, 2, 3, 6}
           /\ board[r][c] = "B" <=> board[19 - r][c] = "W"
     /\ \A c \in Cols : board[6][c] = "W" <=> c \in {2, 5, 8, 11, 14, 17}
     /\ \A c \in Cols : board[2][c] = "E" <=> c \in {0, 4, 6, 11, 13, 15, 19}
     /\ \A c \in Cols : board[1][c] = board[3][c]
     /\ \A c \in Cols : board[1][c] = "E" <=> c \in {0, 1, 3, 5, 14, 16, 18, 19}

\* The new game, each player with a ring.
C22_Witness ==
  /\ NewGame
  /\ HasRing(board, "BLACK", empty_placeholder)
  /\ HasRing(board, "WHITE", empty_placeholder)

(***************************************************************************)
(* C23: in every reachable state current_player and waiting_player are     *)
(* distinct members of {BLACK, WHITE}.                                     *)
(***************************************************************************)
C23_PlayersDistinct ==
  /\ current_player \in {"BLACK", "WHITE"}
  /\ waiting_player \in {"BLACK", "WHITE"}
  /\ current_player # waiting_player

\* The players after an exchange: White to move.
C23_Witness ==
  /\ Accepted
  /\ current_player = "WHITE"
  /\ waiting_player = "BLACK"

(***************************************************************************)
(* C24: for each of the 8 directions, the footprint indices the            *)
(* obstruction check inspects (N: 1,5,6; S: 3,4,8; E: 6,7,8; W: 1,2,3;     *)
(* NE: 1,5,6,7,8; NW: 1,2,3,5,6; SE: 3,4,6,7,8; SW: 1,2,3,4,8) are exactly *)
(* the indices of the cells of the footprint one unit step in that         *)
(* direction that the footprint at the previous centre does not cover.     *)
(***************************************************************************)
Directions ==
  {"north", "south", "east", "west", "northeast", "northwest", "southeast", "southwest"}

\* The indices the claim lists.
ListedIndices ==
  [d \in Directions |->
     CASE d = "north"     -> {1, 5, 6}
       [] d = "south"     -> {3, 4, 8}
       [] d = "east"      -> {6, 7, 8}
       [] d = "west"      -> {1, 2, 3}
       [] d = "northeast" -> {1, 5, 6, 7, 8}
       [] d = "northwest" -> {1, 2, 3, 5, 6}
       [] d = "southeast" -> {3, 4, 6, 7, 8}
       [] d = "southwest" -> {1, 2, 3, 4, 8}]

\* One unit step on the grid: north is towards row index 0, west towards
\* column index 0.
CompassStep ==
  [d \in Directions |->
     << IF d \in {"north", "northeast", "northwest"} THEN -1
        ELSE IF d \in {"south", "southeast", "southwest"} THEN 1 ELSE 0,
        IF d \in {"west", "northwest", "southwest"} THEN -1
        ELSE IF d \in {"east", "northeast", "southeast"} THEN 1 ELSE 0 >>]

\* The indices of the footprint one step in direction d from the Footprint
\* object's centre whose cells the object's own footprint does not cover.
EnteredIndices(d) ==
  LET center == footprint.center_grid_coordinates
      covered == { footprint.footprint_coordinates[n] : n \in 1 .. 9 }
      stepped == to_full_footprint(<< center[1] + CompassStep[d][1], center[2] + CompassStep[d][2] >>)
  IN  { i \in 0 .. 8 : Item(stepped, i) \notin covered }

InspectedIndices(d) == { indices_of_interest[d][k] : k \in 1 .. Len(indices_of_interest[d]) }

C24_InspectedAreEntered ==
  footprint.op # "none" =>
     \A d \in Directions :
        /\ InspectedIndices(d) = ListedIndices[d]
        /\ alter[d] = CompassStep[d]
        /\ EnteredIndices(d) = InspectedIndices(d)

\* A Footprint in the middle of the board, 3 cells entered going north and
\* 5 going northeast.
C24_Witness ==
  /\ footprint.op = "Footprint"
  /\ footprint.center_coordinates = << "k", 10 >>
  /\ Cardinality(EnteredIndices("north")) = 3
  /\ Cardinality(EnteredIndices("northeast")) = 5

(***************************************************************************)
(* C25: the path walk of every make_move call is bounded by the distance:  *)
(* starting one step from the start centre it visits at most               *)
(* max(|row delta|, |column delta|) centres, and it constructs no centre   *)
(* beyond the destination or outside the grid.                             *)
(***************************************************************************)
\* The last call reached obstruction_check: the piece was valid, the distance
\* allowed and the direction anchored.
Walked ==
  /\ CalledWellFormed
  /\ ValidPiece
  /\ spaces_allowed(last.board, last.current_player, StartCenter, DestCenter)
  /\ direction_allowed(last.board, last.current_player, StartCenter, DestCenter) # "False"

\* The centres its walk constructed.
WalkCenters ==
  LET direction == direction_allowed(last.board, last.current_player, StartCenter, DestCenter)
      first == create_new_center(alter[direction][1], alter[direction][2], StartCenter)
      key_locations ==
        [k \in 1 .. Len(indices_of_interest[direction]) |->
           Item(to_full_footprint(first), indices_of_interest[direction][k])]
  IN  walk_centers(last.board, last.empty_placeholder, key_locations, first, DestCenter,
                   alter[direction][1], alter[direction][2])

C25_WalkBounded ==
  Walked =>
     /\ Len(WalkCenters) <= StepCount
     /\ \A n \in 1 .. Len(WalkCenters) :
           /\ OnGrid(WalkCenters[n])
           /\ \E j \in 1 .. StepCount : WalkCenters[n] = CenterAt(j)

(***************************************************************************)
(* C26: in every reachable state the board holds at most 43 Black and at   *)
(* most 43 White stones, and no make_move or resign_game call increases    *)
(* either number.                                                          *)
(***************************************************************************)
C26_StoneCountsNeverGrow ==
  \A glyph \in {"B", "W"} :
     /\ StoneCount(board, glyph) <= 43
     /\ (Called \/ Resigned) => StoneCount(board, glyph) <= StoneCount(last.board, glyph)

\* An accepted move that landed on stones of the waiting player.
C26_Witness ==
  /\ Accepted
  /\ StoneCount(board, FirstChar[last.waiting_player])
        < StoneCount(last.board, FirstChar[last.waiting_player])

(***************************************************************************)
(* C27: an accepted make_move never creates a ring for the waiting player: *)
(* every empty cell whose 8 neighbours all hold stones of the waiting      *)
(* player after the move was such a ring centre before the move.           *)
(***************************************************************************)
\* The ring centres of player p on board b.
RingCentres(b, p, ph) ==
  { cell \in Rows \X Cols :
      /\ b[cell[1]][cell[2]] = ph
      /\ \A n \in Neighbours(cell[1], cell[2]) : OnGrid(n) /\ b[n[1]][n[2]] = FirstChar[p] }

C27_NoRingForWaitingPlayer ==
  Accepted =>
     RingCentres(board, last.waiting_player, empty_placeholder)
        \subseteq RingCentres(last.board, last.waiting_player, last.empty_placeholder)

\* An accepted move that took the waiting player's only ring.
C27_Witness ==
  /\ Accepted
  /\ RingCentres(last.board, last.waiting_player, last.empty_placeholder) # {}
  /\ RingCentres(board, last.waiting_player, empty_placeholder) = {}

(***************************************************************************)
(* C28: if a move accepted while the status is UNFINISHED leaves the mover *)
(* with no ring while the opponent still has one, the game does not end on *)
(* that move: the status stays UNFINISHED and the turn passes to the       *)
(* opponent; and an accepted move made against a waiting player who has no *)
(* ring (the opponent's next accepted move after such a move) ends the     *)
(* game with the mover as winner.                                          *)
(***************************************************************************)
MoverLostOwnRing ==
  /\ Accepted
  /\ last.game_state = "UNFINISHED"
  /\ RingCentres(board, last.current_player, empty_placeholder) = {}
  /\ RingCentres(board, last.waiting_player, empty_placeholder) # {}

MovedAgainstRingless ==
  /\ Accepted
  /\ RingCentres(last.board, last.waiting_player, last.empty_placeholder) = {}

OneStepMove ==
  /\ CalledWellFormed
  /\ StepCount = 1
  /\ ValidPiece
  /\ MoveIndex \in 1 .. 8
  /\ OwnStoneAt(MoveIndex)
  /\ \A i \in 0 .. 8 : OnGrid(Item(DestFootprint, i))

C29_OneStepNeverObstructed == OneStepMove => (last.result = "True" /\ DestinationWritten)

\* An accepted one-step move of a footprint inside the grid onto a cell
\* outside the start footprint that held a stone.
C29_Witness ==
  /\ OneStepMove
  /\ Accepted
  /\ DestinationWritten
  /\ \A i \in 0 .. 8 : OnGrid(Item(StartFootprint, i))
  /\ \E i \in 0 .. 8 :
        /\ Item(DestFootprint, i) \notin FootprintCells(StartCenter)
        /\ BoardGet(last.board, Item(DestFootprint, i)) \in {"B", "W"}

(***************************************************************************)
(* C30: alter_board_display, called any number of times with any argument  *)
(* in any reachable state, moves or removes no Black or White stone and    *)
(* changes neither player nor the status; every non-stone cell equals the  *)
(* stored empty placeholder; and every make_move gives the same result,    *)
(* the same stone positions, players and status as the same call made on   *)
(* the board of a game where the "E" cells were never rewritten.           *)
(***************************************************************************)
Altered == last.op = "alter_board_display"

\* make_move of the last call, made on the pre-call board with "E" still in
\* every empty cell and "E" as the stored placeholder.
NeverAltered ==
  make_move(Stones(last.board), last.current_player, last.waiting_player,
            last.game_state, "E", last.start, last.destination)

C30_DisplayChangeOnly ==
  /\ \A r \in Rows : \A c \in Cols : board[r][c] \in {"B", "W", empty_placeholder}
  /\ Altered =>
        /\ Stones(board) = Stones(last.board)
        /\ current_player = last.current_player
        /\ waiting_player = last.waiting_player
        /\ game_state = last.game_state
  /\ Called =>
        /\ last.result = NeverAltered.result
        /\ Stones(board) = Stones(NeverAltered.board)
        /\ current_player = NeverAltered.current_player
        /\ waiting_player = NeverAltered.waiting_player
        /\ game_state = NeverAltered.game_state

\* A move of two or more steps accepted on a board whose empty cells were
\* rewritten: directional_check read key locations holding the new glyph.
C30_Witness ==
  /\ Accepted
  /\ WellFormed(last.start) /\ WellFormed(last.destination)
  /\ StepCount >= 2
  /\ last.empty_placeholder # "E"
  /\ \E r \in Rows : \E c \in Cols : last.board[r][c] = last.empty_placeholder

(***************************************************************************)
(* C31: game_over is never invoked while the status is UNFINISHED: under   *)
(* any sequence of calls, whenever the last call invoked game_over the     *)
(* status is a win and game_over printed that winner's message; it never   *)
(* raised ValueError.                                                      *)
(***************************************************************************)
GameOverInvoked == game_over_call # "not called"

C31_GameOverOnlyAfterEnd ==
  /\ game_over_call # "ValueError"
  /\ GameOverInvoked =>
        /\ game_state \in {"WHITE_WON", "BLACK_WON"}
        /\ game_over_call = game_over(game_state)
  /\ (Accepted /\ game_state = "UNFINISHED") => ~GameOverInvoked

\* game_over invoked by update_game after an accepted move that won the game.
C31_Witness ==
  /\ Accepted
  /\ last.game_state = "UNFINISHED"
  /\ GameOverInvoked
  /\ game_over_call = game_over(WonBy[last.current_player])

\* game_over invoked by resign_game.
C31_ResignWitness ==
  /\ last.op = "resign_game"
  /\ last.game_state = "UNFINISHED"
  /\ GameOverInvoked

=============================================================================
